---- MODULE Spec2Model ----
(***************************************************************************)
(* JWT bearer authentication gate of APIMicroservice (src/src/main.py).    *)
(*                                                                         *)
(* The state is the process-wide public_keys cache, the lifespan phase,    *)
(* and one record per request task.  A request task suspends only at the   *)
(* await of client.post inside fetch_public_keys; everything between two   *)
(* suspensions runs atomically on the event loop, so every action below    *)
(* is the code between two suspension points.                              *)
(*                                                                         *)
(* The authentication service is the environment: the key set it           *)
(* publishes (rotated by RotateKeys) and how it answers a request          *)
(* (changed by AuthServiceChanges).                                        *)
(***************************************************************************)
EXTENDS Integers, FiniteSets, Sequences, TLC

VARIABLES
    public_keys,   \* the module global public_keys
    phase,         \* lifespan: "boot", "serving", "failed"
    task,          \* per request task: idle, or suspended in fetch_public_keys
    version,       \* environment: which key set the auth service publishes
    authState,     \* environment: how the auth service answers a POST
    last,          \* what the step just taken was: a finished call, or nothing
    answer,        \* per request task: what the service answered, not yet received
    recent         \* the fetch issued most recently, and what it installed

vars == <<public_keys, phase, task, version, authState, last, answer, recent>>

----------------------------------------------------------------------------
(* Bounds *)

NumTasks == 2
MaxRotations == 2
Now == 1000

Tasks == 1..NumTasks

----------------------------------------------------------------------------
(* Python values *)

PyUnset == [tag |-> "unset", map |-> <<>>]
PyNone == [tag |-> "None", map |-> <<>>]
PyDict(m) == [tag |-> "dict", map |-> m]
EmptyMap == PyDict(<<>>)

Ret(v) == [ok |-> TRUE, val |-> v]
Raise(e, d) == [ok |-> FALSE, exc |-> e, detail |-> d]

----------------------------------------------------------------------------
(* The authentication service *)

KeyIds == {"k1", "k2"}
Keys == {"pubkeyA", "pubkeyB"}

\* The key set published after v rotations: k2 is added, then k1 is retired.
Published(v) ==
    CASE v = 0 -> ("k1" :> "pubkeyA")
      [] v = 1 -> ("k1" :> "pubkeyA") @@ ("k2" :> "pubkeyB")
      [] OTHER -> ("k2" :> "pubkeyB")

\* The JSON body of a non-2xx answer.
ErrorBody == ("detail" :> "Not Found")

AuthStates == {"up", "connect_timeout", "http_error", "non2xx"}

\* What the service answers; "up" is a 2xx answer carrying the published set.
\* "connect_timeout" is httpx.ConnectTimeout; "http_error" is any other
\* httpx.HTTPError (connection refused, read timeout); "non2xx" is an error
\* status with a JSON body.

----------------------------------------------------------------------------
(* Tokens *)

ALGORITHM == "RS256"

Headers == {[alg |-> ALGORITHM, kid |-> k] : k \in KeyIds} \cup {[alg |-> ALGORITHM]}

ExpValues == {Now - 10, Now, Now + 3600}
TypeValues == {"access", "refresh", "Access"}

Payloads ==
    {[exp |-> e, type |-> t] : e \in ExpValues, t \in TypeValues}
        \cup {[exp |-> e] : e \in ExpValues}

\* A token that is not a JWT at all; sig is the public key matching the
\* private key that signed a well-formed one.
Garbage ==
    [wf |-> FALSE, header |-> [alg |-> ALGORITHM], sig |-> "pubkeyA",
     payload |-> [exp |-> Now - 10]]

WellFormed == [wf : {TRUE}, header : Headers, sig : Keys, payload : Payloads]

Tokens == WellFormed \cup {Garbage}

----------------------------------------------------------------------------
(* PyJWT *)

jwt_get_unverified_header(token) ==
    IF token.wf THEN Ret(token.header) ELSE Raise("DecodeError", "")

\* jwt.decode(token, key, algorithms=[ALGORITHM]): the key is loaded, the
\* signature is verified, then the registered claims are validated.
jwt_decode(token, key) ==
    IF ~token.wf THEN Raise("DecodeError", "")
    ELSE IF key \notin Keys THEN Raise("InvalidKeyError", "")
    ELSE IF token.sig # key THEN Raise("InvalidSignatureError", "")
    ELSE IF token.payload.exp <= Now THEN Raise("ExpiredSignatureError", "")
    ELSE Ret(token.payload)

PyJWTErrors ==
    {"DecodeError", "InvalidKeyError", "InvalidSignatureError", "ExpiredSignatureError"}

----------------------------------------------------------------------------
(* fetch_public_keys *)

\* The value the coroutine produces once client.post has been answered.
fetch_public_keys(state, v) ==
    CASE state = "up" -> Ret(PyDict(Published(v)))
      [] state = "non2xx" -> Ret(PyDict(ErrorBody))
      [] state = "connect_timeout" -> Ret(PyNone)
      [] OTHER -> Raise("httpx.HTTPError", "")

----------------------------------------------------------------------------
(* get_public_key *)

\* Python's  key_id not in public_keys
PyNotIn(key_id, pk) ==
    IF pk.tag = "dict" THEN Ret(key_id \notin DOMAIN pk.map)
    ELSE Raise("TypeError", "argument of type 'NoneType' is not iterable")

\* Line 130 with the test inverted: a cached id is fetched again.
get_public_key_lookup_Inverted(key_id, pk) ==
    LET miss == PyNotIn(key_id, pk) IN
    IF miss.ok THEN Ret(~miss.val) ELSE miss

\* get_public_key fetching on every call, whether the id is cached or not.
get_public_key_lookup_AlwaysMiss(key_id, pk) ==
    LET miss == PyNotIn(key_id, pk) IN
    IF miss.ok THEN Ret(TRUE) ELSE miss

\* Line 130: whether the call goes to fetch_public_keys.
get_public_key_lookup(key_id, pk) == PyNotIn(key_id, pk)

\* get_public_key falling back to a key it holds when the id is unknown.
get_public_key_recheck_FailOpen(key_id, pk) ==
    LET miss == PyNotIn(key_id, pk) IN
    IF ~miss.ok THEN miss
    ELSE IF miss.val THEN Ret("pubkeyA")
    ELSE Ret(pk.map[key_id])

\* Lines 132-134, run against the value of the global at that moment.
get_public_key_recheck(key_id, pk) ==
    LET miss == PyNotIn(key_id, pk) IN
    IF ~miss.ok THEN miss
    ELSE IF miss.val THEN Raise("HTTPException", "Invalid key id")
    ELSE Ret(pk.map[key_id])

----------------------------------------------------------------------------
(* jwt_auth *)

Allow == [status |-> 200, detail |-> "", exc |-> ""]
Reject(d, e) == [status |-> 401, detail |-> d, exc |-> e]
ServerError(e) == [status |-> 500, detail |-> "Internal Server Error", exc |-> e]

InvalidTypeDetail(t) == "Invalid token type: expected 'access', got '" \o t \o "'"

\* The except clauses with PyJWTError tried before its subclass
\* ExpiredSignatureError.
jwt_auth_except_Reordered(r) ==
    IF r.exc \in PyJWTErrors \cup {"KeyError"} THEN Reject("Invalid token", r.exc)
    ELSE IF r.exc = "ExpiredSignatureError" THEN Reject("Token expired", r.exc)
    ELSE IF r.exc = "HTTPException" THEN Reject(r.detail, r.exc)
    ELSE ServerError(r.exc)

\* The except clauses of jwt_auth and, for what they let through, FastAPI:
\* an HTTPException becomes its own response, anything else a 500.
jwt_auth_except(r) ==
    IF r.exc = "ExpiredSignatureError" THEN Reject("Token expired", r.exc)
    ELSE IF r.exc \in PyJWTErrors \cup {"KeyError"} THEN Reject("Invalid token", r.exc)
    ELSE IF r.exc = "HTTPException" THEN Reject(r.detail, r.exc)
    ELSE ServerError(r.exc)

\* Lines 107-117 with the type compared without regard to letter case.
jwt_auth_decode_AnyCase(token, keyResult) ==
    IF ~keyResult.ok THEN jwt_auth_except(keyResult)
    ELSE LET payload == jwt_decode(token, keyResult.val) IN
         IF ~payload.ok THEN jwt_auth_except(payload)
         ELSE IF "type" \notin DOMAIN payload.val
              THEN jwt_auth_except(Raise("KeyError", "type"))
         ELSE IF payload.val.type \notin {"access", "Access"}
              THEN jwt_auth_except(Raise("HTTPException", InvalidTypeDetail(payload.val.type)))
         ELSE Allow

\* Lines 107-117 with the type test inverted.
jwt_auth_decode_Inverted(token, keyResult) ==
    IF ~keyResult.ok THEN jwt_auth_except(keyResult)
    ELSE LET payload == jwt_decode(token, keyResult.val) IN
         IF ~payload.ok THEN jwt_auth_except(payload)
         ELSE IF "type" \notin DOMAIN payload.val
              THEN jwt_auth_except(Raise("KeyError", "type"))
         ELSE IF payload.val.type = "access"
              THEN jwt_auth_except(Raise("HTTPException", InvalidTypeDetail(payload.val.type)))
         ELSE Allow

\* Lines 107-117 with jwt.decode told not to verify the signature.
jwt_auth_decode_Unverified(token, keyResult) ==
    IF ~keyResult.ok THEN jwt_auth_except(keyResult)
    ELSE LET payload == IF token.payload.exp <= Now
                        THEN Raise("ExpiredSignatureError", "")
                        ELSE Ret(token.payload) IN
         IF ~payload.ok THEN jwt_auth_except(payload)
         ELSE IF "type" \notin DOMAIN payload.val
              THEN jwt_auth_except(Raise("KeyError", "type"))
         ELSE IF payload.val.type # "access"
              THEN jwt_auth_except(Raise("HTTPException", InvalidTypeDetail(payload.val.type)))
         ELSE Allow

\* Lines 107-117 reading the type from the payload before jwt.decode has
\* verified the token.
jwt_auth_decode_ClaimsFirst(token, keyResult) ==
    IF ~keyResult.ok THEN jwt_auth_except(keyResult)
    ELSE IF "type" \notin DOMAIN token.payload
         THEN jwt_auth_except(Raise("KeyError", "type"))
    ELSE IF token.payload.type # "access"
         THEN jwt_auth_except(Raise("HTTPException", InvalidTypeDetail(token.payload.type)))
    ELSE LET payload == jwt_decode(token, keyResult.val) IN
         IF ~payload.ok THEN jwt_auth_except(payload) ELSE Allow

\* Lines 107-117, given what get_public_key produced.
jwt_auth_decode(token, keyResult) ==
    IF ~keyResult.ok THEN jwt_auth_except(keyResult)
    ELSE LET payload == jwt_decode(token, keyResult.val) IN
         IF ~payload.ok THEN jwt_auth_except(payload)
         ELSE IF "type" \notin DOMAIN payload.val
              THEN jwt_auth_except(Raise("KeyError", "type"))
         ELSE IF payload.val.type # "access"
              THEN jwt_auth_except(Raise("HTTPException", InvalidTypeDetail(payload.val.type)))
         ELSE Allow

----------------------------------------------------------------------------
(* State *)

HasKid(token) == token.wf /\ "kid" \in DOMAIN token.header

\* The tokens the concurrent specification draws from: every header and
\* signing key, with a payload that passes the claim checks and one that
\* fails them.  SpecAllTokens draws from Tokens.
RacePayloads == {[exp |-> Now + 3600, type |-> "access"], [exp |-> Now - 10, type |-> "refresh"]}
RaceTokens == {tk \in Tokens : ~tk.wf \/ tk.payload \in RacePayloads}

Idle == [pc |-> "idle", tok |-> Garbage, fetches |-> 0, cached |-> FALSE]
Suspended(token, n, c) == [pc |-> "fetch", tok |-> token, fetches |-> n, cached |-> c]

NoDecision == [status |-> 0, detail |-> "", exc |-> ""]

NoLast ==
    [kind |-> "none", tok |-> Garbage, cached |-> FALSE, fetches |-> 0,
     fetch |-> "none", fetched |-> PyUnset, key |-> "", decision |-> NoDecision]

Started(r) ==
    [NoLast EXCEPT !.kind = "startup",
                   !.fetches = 1,
                   !.fetch = IF r.ok THEN "returned" ELSE "raised",
                   !.fetched = IF r.ok THEN r.val ELSE PyUnset]

\* A finished jwt_auth call: its token, whether the key id was in the cache
\* at line 130, how many fetches it issued and what the fetch produced, the
\* key get_public_key returned, and the response.
Called(token, c, n, f, fv, k, d) ==
    [kind |-> "call", tok |-> token, cached |-> c, fetches |-> n,
     fetch |-> f, fetched |-> fv, key |-> k, decision |-> d]

\* An answer not yet given; no fetch issued yet.
NoAnswer == [ok |-> FALSE, exc |-> "", detail |-> ""]
NoRecent == [task |-> 0, done |-> FALSE, value |-> PyUnset]

IsCached(key_id, pk) == pk.tag = "dict" /\ key_id \in DOMAIN pk.map

KeyOf(keyResult) == IF keyResult.ok THEN keyResult.val ELSE ""

Init ==
    /\ public_keys = PyUnset
    /\ phase = "boot"
    /\ task = [t \in Tasks |-> Idle]
    /\ version = 0
    /\ authState \in AuthStates
    /\ last = NoLast
    /\ answer = [t \in Tasks |-> NoAnswer]
    /\ recent = NoRecent

----------------------------------------------------------------------------
(* Actions *)

\* lifespan: the startup fetch.  Nothing else runs until it has finished;
\* an exception out of it ends the startup and no request is ever served.
lifespan ==
    /\ phase = "boot"
    /\ LET r == fetch_public_keys(authState, version) IN
       /\ public_keys' = IF r.ok THEN r.val ELSE public_keys
       /\ phase' = IF r.ok THEN "serving" ELSE "failed"
       /\ last' = Started(r)
    /\ UNCHANGED <<task, version, authState, answer, recent>>

\* jwt_auth from line 103 to the await in get_public_key (line 131), or to
\* its end when the call never reaches the await.
jwt_auth_step(t, token) ==
    /\ phase = "serving"
    /\ task[t].pc = "idle"
    /\ LET header == jwt_get_unverified_header(token) IN
       IF ~header.ok
       THEN /\ last' = Called(token, FALSE, 0, "none", PyUnset, "", jwt_auth_except(header))
            /\ UNCHANGED task
       ELSE IF "kid" \notin DOMAIN header.val
       THEN /\ last' = Called(token, FALSE, 0, "none", PyUnset, "",
                              jwt_auth_except(Raise("KeyError", "kid")))
            /\ UNCHANGED task
       ELSE LET key_id == header.val.kid
                cached == IsCached(key_id, public_keys)
                miss == get_public_key_lookup(key_id, public_keys)
            IN  IF ~miss.ok
                THEN /\ last' = Called(token, cached, 0, "none", PyUnset, "",
                                       jwt_auth_except(miss))
                     /\ UNCHANGED task
                ELSE IF miss.val
                THEN /\ task' = [task EXCEPT ![t] = Suspended(token, 1, cached)]
                     /\ last' = NoLast
                ELSE LET keyResult == get_public_key_recheck(key_id, public_keys) IN
                     /\ last' = Called(token, cached, 0, "none", PyUnset, KeyOf(keyResult),
                                       jwt_auth_decode(token, keyResult))
                     /\ UNCHANGED task
    /\ UNCHANGED <<public_keys, phase, version, authState>>

jwt_auth(t, token) ==
    /\ jwt_auth_step(t, token)
    /\ UNCHANGED <<answer, recent>>

\* The same, noting which fetch was issued last.
jwt_auth_issue(t, token) ==
    /\ jwt_auth_step(t, token)
    /\ recent' = IF task'[t].pc = "fetch"
                 THEN [task |-> t, done |-> FALSE, value |-> PyUnset]
                 ELSE recent
    /\ UNCHANGED answer

\* Line 131 updating the mapping in place instead of rebinding the global:
\* the entries of the old mapping stay beside the fetched ones.
get_public_key_resume_InPlace(t, r) ==
    /\ task[t].pc = "fetch"
    /\ LET token == task[t].tok
           key_id == token.header.kid
           pk == IF r.ok /\ r.val.tag = "dict" /\ public_keys.tag = "dict"
                 THEN PyDict(r.val.map @@ public_keys.map)
                 ELSE IF r.ok THEN r.val ELSE public_keys
           keyResult == IF r.ok THEN get_public_key_recheck(key_id, pk) ELSE r
       IN  /\ public_keys' = pk
           /\ task' = [task EXCEPT ![t] = Idle]
           /\ last' = Called(token, task[t].cached, task[t].fetches,
                             IF r.ok THEN "returned" ELSE "raised",
                             IF r.ok THEN r.val ELSE PyUnset,
                             KeyOf(keyResult), jwt_auth_decode(token, keyResult))
    /\ UNCHANGED <<phase, version, authState>>

\* Lines 131-132 checking the cache again after the await and keeping it
\* when another call has installed the id meanwhile.
get_public_key_resume_FirstWins(t, r) ==
    /\ task[t].pc = "fetch"
    /\ LET token == task[t].tok
           key_id == token.header.kid
           pk == IF r.ok /\ ~IsCached(key_id, public_keys) THEN r.val ELSE public_keys
           keyResult == IF r.ok THEN get_public_key_recheck(key_id, pk) ELSE r
       IN  /\ public_keys' = pk
           /\ task' = [task EXCEPT ![t] = Idle]
           /\ last' = Called(token, task[t].cached, task[t].fetches,
                             IF r.ok THEN "returned" ELSE "raised",
                             IF r.ok THEN r.val ELSE PyUnset,
                             KeyOf(keyResult), jwt_auth_decode(token, keyResult))
    /\ UNCHANGED <<phase, version, authState>>

\* Line 131 without the global statement of line 129: the fetched mapping is
\* bound to a local name and the cache stays as it was.
get_public_key_resume_NoGlobal(t, r) ==
    /\ task[t].pc = "fetch"
    /\ LET token == task[t].tok
           key_id == token.header.kid
           pk == IF r.ok THEN r.val ELSE public_keys
           keyResult == IF r.ok THEN get_public_key_recheck(key_id, pk) ELSE r
       IN  /\ public_keys' = public_keys
           /\ task' = [task EXCEPT ![t] = Idle]
           /\ last' = Called(token, task[t].cached, task[t].fetches,
                             IF r.ok THEN "returned" ELSE "raised",
                             IF r.ok THEN r.val ELSE PyUnset,
                             KeyOf(keyResult), jwt_auth_decode(token, keyResult))
    /\ UNCHANGED <<phase, version, authState>>

\* The await of line 131 ends with r, what fetch_public_keys produced: the
\* assignment to the global, lines 132-134, and jwt_auth from line 107 to
\* its end.
get_public_key_resume(t, r) ==
    /\ task[t].pc = "fetch"
    /\ LET token == task[t].tok
           key_id == token.header.kid
           pk == IF r.ok THEN r.val ELSE public_keys
           keyResult == IF r.ok THEN get_public_key_recheck(key_id, pk) ELSE r
       IN  /\ public_keys' = pk
           /\ task' = [task EXCEPT ![t] = Idle]
           /\ last' = Called(token, task[t].cached, task[t].fetches,
                             IF r.ok THEN "returned" ELSE "raised",
                             IF r.ok THEN r.val ELSE PyUnset,
                             KeyOf(keyResult), jwt_auth_decode(token, keyResult))
    /\ UNCHANGED <<phase, version, authState>>

\* The service answers and the task resumes at once.
fetch_returns(t) ==
    /\ get_public_key_resume(t, fetch_public_keys(authState, version))
    /\ UNCHANGED <<answer, recent>>

\* The service answers a suspended task from what it publishes now; the
\* answer is on its way.
AuthServiceAnswers(t) ==
    /\ task[t].pc = "fetch"
    /\ answer[t] = NoAnswer
    /\ answer' = [answer EXCEPT ![t] = fetch_public_keys(authState, version)]
    /\ last' = NoLast
    /\ UNCHANGED <<public_keys, phase, task, version, authState, recent>>

\* An answer given earlier reaches its task, which resumes.
fetch_arrives(t) ==
    /\ answer[t] # NoAnswer
    /\ get_public_key_resume(t, answer[t])
    /\ answer' = [answer EXCEPT ![t] = NoAnswer]
    /\ recent' = IF recent.task = t /\ ~recent.done
                 THEN [recent EXCEPT !.done = TRUE,
                                     !.value = IF answer[t].ok THEN answer[t].val ELSE PyUnset]
                 ELSE recent

\* The authentication service publishes its next key set.
RotateKeys ==
    /\ version < MaxRotations
    /\ version' = version + 1
    /\ last' = NoLast
    /\ UNCHANGED <<public_keys, phase, task, authState, answer, recent>>

\* The authentication service becomes reachable or unreachable.
AuthServiceChanges ==
    /\ \E s \in AuthStates \ {authState} : authState' = s
    /\ last' = NoLast
    /\ UNCHANGED <<public_keys, phase, task, version, answer, recent>>

Next ==
    \/ lifespan
    \/ \E t \in Tasks, token \in RaceTokens : jwt_auth(t, token)
    \/ \E t \in Tasks : fetch_returns(t)
    \/ RotateKeys
    \/ AuthServiceChanges

Spec == Init /\ [][Next]_vars

\* One request at a time, over every token.
NextAllTokens ==
    \/ lifespan
    \/ \E token \in Tokens : jwt_auth(1, token)
    \/ fetch_returns(1)
    \/ RotateKeys
    \/ AuthServiceChanges

SpecAllTokens == Init /\ [][NextAllTokens]_vars

\* Answers that travel: the service answers a fetch at one moment and the
\* task receives the answer at a later one, so answers can arrive in an
\* order other than the one the fetches were issued in.  One valid access
\* token per key id.
StaleTokens ==
    {tk \in RaceTokens : /\ HasKid(tk)
                         /\ tk.payload.type = "access"
                         /\ tk.sig = Published(1)[tk.header.kid]}

NextStale ==
    \/ lifespan
    \/ \E t \in Tasks, token \in StaleTokens : jwt_auth_issue(t, token)
    \/ \E t \in Tasks : AuthServiceAnswers(t)
    \/ \E t \in Tasks : fetch_arrives(t)
    \/ RotateKeys
    \/ AuthServiceChanges

SpecStale == Init /\ [][NextStale]_vars

----------------------------------------------------------------------------
(* Vocabulary of the properties *)

IsCall == last.kind = "call"

\* The reasons of the specification, as the responses the code gives.
UnknownKeyId == Reject("Invalid key id", "HTTPException")
Expired == Reject("Token expired", "ExpiredSignatureError")
InvalidClaims(t) == Reject(InvalidTypeDetail(t), "HTTPException")

RejectDetails ==
    {"Invalid key id", "Token expired", "Invalid token"}
        \cup {InvalidTypeDetail(t) : t \in TypeValues}

\* The fetch of the finished call returned a mapping.
FetchedMapping == last.fetch = "returned" /\ last.fetched.tag = "dict"

\* The fetch of the finished call failed: it raised, or it timed out.
FetchFailed == last.fetch = "raised" \/ (last.fetch = "returned" /\ last.fetched = PyNone)

\* The finished call found its key id in the cache, or in the mapping its
\* refetch returned; Bound is the key that mapping binds to the id.
FromCache == HasKid(last.tok) /\ last.cached /\ IsCached(last.tok.header.kid, public_keys)
FromFetch ==
    HasKid(last.tok) /\ ~last.cached /\ FetchedMapping
        /\ last.tok.header.kid \in DOMAIN last.fetched.map
Resolvable == FromCache \/ FromFetch
Bound ==
    IF FromCache THEN public_keys.map[last.tok.header.kid]
    ELSE last.fetched.map[last.tok.header.kid]

\* The mapping the finished call took its key from, and the mappings a
\* fetch can return.
BoundMapping == IF FromCache THEN public_keys.map ELSE last.fetched.map
CompleteMappings == {Published(v) : v \in 0..MaxRotations} \cup {ErrorBody}

TypeNotAccess(token) ==
    "type" \notin DOMAIN token.payload \/ token.payload.type # "access"

SomeoneSuspended == \E t \in Tasks : task[t].pc = "fetch"

----------------------------------------------------------------------------
(* Properties *)

\* C1: a call whose key id is not in the cache at the lookup and not in
\* the mapping its refetch returns ends in the unknown-key-id rejection;
\* and whenever the key id is found in neither, the call is not allowed.
C1_UnknownKidRejected ==
    (IsCall /\ HasKid(last.tok) /\ ~last.cached) =>
        /\ (FetchedMapping /\ last.tok.header.kid \notin DOMAIN last.fetched.map)
              => last.decision = UnknownKeyId
        /\ ~FromFetch => last.decision.status # 200

\* An otherwise valid token with an unpublished key id is refused while
\* another request is suspended in its own fetch.
C1_Witness ==
    /\ IsCall /\ HasKid(last.tok) /\ ~last.cached
    /\ FetchedMapping /\ last.tok.header.kid \notin DOMAIN last.fetched.map
    /\ last.tok.payload = [exp |-> Now + 3600, type |-> "access"]
    /\ last.decision = UnknownKeyId
    /\ SomeoneSuspended

\* C2: a well-formed token whose key id resolves, signed by the key bound
\* to that id, of type access and not yet expired, is allowed.
C2_ValidTokenAllowed ==
    (/\ IsCall /\ Resolvable
     /\ last.tok.sig = Bound
     /\ "type" \in DOMAIN last.tok.payload /\ last.tok.payload.type = "access"
     /\ last.tok.payload.exp > Now)
        => last.decision = Allow

\* Allowed on a key the refetch brought, with the other request suspended.
C2_Witness ==
    /\ IsCall /\ FromFetch /\ last.tok.header.kid = "k2"
    /\ last.decision = Allow
    /\ SomeoneSuspended

\* C3: a token whose key id resolves, signed by the key bound to that id,
\* with exp in the past, gets the expired rejection whatever its type.
C3_ExpiredRejected ==
    (IsCall /\ Resolvable /\ last.tok.sig = Bound /\ last.tok.payload.exp < Now)
        => last.decision = Expired

\* An expired token that carries no type claim at all.
C3_Witness ==
    /\ IsCall /\ Resolvable /\ last.tok.sig = Bound /\ last.tok.payload.exp < Now
    /\ "type" \notin DOMAIN last.tok.payload
    /\ last.decision = Expired

\* C4 as stated: any well-formed token whose type is not exactly "access",
\* or is absent, gets the invalid-claims rejection.
C4_Orig ==
    (IsCall /\ last.tok.wf /\ TypeNotAccess(last.tok))
        => \E t \in TypeValues : last.decision = InvalidClaims(t)

\* C4 (amended): a token whose type is not exactly "access" is never
\* allowed; when its key id resolves, its signature is valid and its exp is
\* in the future, it gets the invalid-claims rejection if the type is
\* present and the generic invalid-token rejection if the type is absent.
C4_NonAccessNeverAllowed ==
    (IsCall /\ last.tok.wf /\ TypeNotAccess(last.tok)) =>
        /\ last.decision.status # 200
        /\ (Resolvable /\ last.tok.sig = Bound /\ last.tok.payload.exp > Now) =>
              IF "type" \in DOMAIN last.tok.payload
              THEN last.decision = InvalidClaims(last.tok.payload.type)
              ELSE last.decision = Reject("Invalid token", "KeyError")

\* A validly signed, unexpired token of type "Access".
C4_Witness ==
    /\ IsCall /\ Resolvable /\ last.tok.sig = Bound /\ last.tok.payload.exp > Now
    /\ "type" \in DOMAIN last.tok.payload /\ last.tok.payload.type = "Access"
    /\ last.decision = InvalidClaims("Access")

\* C5 as stated: a call whose key id is missing from the cache issues
\* exactly one fetch, the cache is then what the fetch returned, and a key
\* id still missing ends in unknown-key-id; no call issues a second fetch.
C5_Orig ==
    /\ \A t \in Tasks : task[t].fetches <= 1
    /\ (IsCall /\ HasKid(last.tok) /\ ~last.cached) =>
          /\ last.fetches = 1
          /\ last.fetch = "returned" => public_keys = last.fetched
          /\ (last.fetch = "returned" /\ ~IsCached(last.tok.header.kid, public_keys))
                => last.decision = UnknownKeyId

\* C6: a call whose key id is in the cache issues no fetch, leaves the cache
\* alone and gets the key the cache binds to the id; two such calls in a row
\* for the same id get the same key.
C6_CachedNoFetch ==
    [][(last'.kind = "call" /\ HasKid(last'.tok) /\ last'.cached) =>
          /\ last'.fetches = 0
          /\ last'.fetch = "none"
          /\ public_keys' = public_keys
          /\ last'.key = public_keys.map[last'.tok.header.kid]
          /\ (IsCall /\ HasKid(last.tok) /\ last.cached
                /\ last.tok.header.kid = last'.tok.header.kid) => last'.key = last.key
      ]_vars

\* A cached key id resolved without a fetch while the service is down.
C6_Witness ==
    /\ IsCall /\ FromCache /\ last.fetches = 0
    /\ last.key = public_keys.map[last.tok.header.kid]
    /\ authState # "up"

\* C7 as stated: a failed startup fetch leaves the process serving with the
\* empty mapping, and a call made while no mapping is installed is rejected
\* with a 401.
C7_Orig ==
    /\ (last.kind = "startup" /\ authState # "up")
          => (phase = "serving" /\ public_keys = EmptyMap)
    /\ (IsCall /\ public_keys.tag # "dict") => last.decision.status = 401

\* C8 as stated: with the service reachable, a valid access token whose key
\* id the service publishes, and which is not answered from the cache, is
\* allowed, whatever fetches failed before.
C8_Orig ==
    (/\ IsCall /\ HasKid(last.tok) /\ ~last.cached
     /\ authState = "up"
     /\ last.tok.header.kid \in DOMAIN Published(version)
     /\ last.tok.sig = Published(version)[last.tok.header.kid]
     /\ "type" \in DOMAIN last.tok.payload /\ last.tok.payload.type = "access"
     /\ last.tok.payload.exp > Now)
        => last.decision = Allow

\* C9 as stated: a call whose refetch fails is rejected with a 401 that is
\* not the unknown-key-id rejection.
C9_Orig ==
    (IsCall /\ FetchFailed)
        => (last.decision.status = 401 /\ last.decision # UnknownKeyId)

\* C10 as stated: every call ends allowed or in a 401 with one of the
\* rejection reasons.
C10_Orig ==
    IsCall =>
        \/ last.decision = Allow
        \/ last.decision.status = 401 /\ last.decision.detail \in RejectDetails

\* C11: the key get_public_key returns is the one bound to the requested
\* key id in a mapping a fetch returned, and a call is allowed only when the
\* token's signature is valid under that key.
C11_NeverFailsOpen ==
    IsCall =>
        /\ last.key # "" =>
              (Resolvable /\ last.key = Bound /\ BoundMapping \in CompleteMappings)
        /\ last.decision = Allow => (last.key # "" /\ last.tok.sig = last.key)

\* Allowed from the cache under the key of k2, though the service now
\* publishes another set and another request is suspended.
C11_Witness ==
    /\ IsCall /\ FromCache /\ last.tok.header.kid = "k2"
    /\ last.key = "pubkeyB" /\ last.decision = Allow
    /\ SomeoneSuspended
    /\ public_keys.map # Published(version)

\* C12: the cache is never a partially populated mapping, and the key a
\* call gets is the one bound to its key id in the one complete mapping
\* that its membership test saw.
C12_AtomicReplace ==
    /\ public_keys.tag = "dict" => public_keys.map \in CompleteMappings
    /\ (IsCall /\ last.key # "") =>
          /\ IsCached(last.tok.header.kid, public_keys)
          /\ last.key = public_keys.map[last.tok.header.kid]

\* A call answered from the cache while another task is suspended and the
\* answer to its fetch is on its way.
C12_Witness ==
    /\ IsCall /\ last.cached /\ last.key # ""
    /\ \E t \in Tasks : task[t].pc = "fetch" /\ answer[t] # NoAnswer /\ answer[t].ok
                          /\ answer[t].val # public_keys

\* C13 as stated: a fetch the service did not answer with a 2xx ends in a
\* failure the caller can tell from a mapping, and nothing is installed.
C13_Orig ==
    (last.kind \in {"startup", "call"} /\ last.fetch # "none" /\ authState # "up")
        => last.fetch = "raised"

\* C14: a token that is not well formed or has no kid is rejected as an
\* invalid token without a fetch and without a key; a token whose signature
\* is not valid under the resolved key is rejected for its signature,
\* whatever its exp and type.
C14_VerificationOrder ==
    IsCall =>
        /\ ~HasKid(last.tok) =>
              /\ last.decision \in {Reject("Invalid token", "DecodeError"),
                                    Reject("Invalid token", "KeyError")}
              /\ last.fetches = 0 /\ last.fetch = "none" /\ last.key = ""
              /\ \A t \in Tasks : task[t].pc = "fetch" => task[t].tok # last.tok
        /\ (Resolvable /\ last.tok.sig # Bound) =>
              last.decision = Reject("Invalid token", "InvalidSignatureError")

\* A badly signed token that is also expired and of type refresh.
C14_Witness ==
    /\ IsCall /\ Resolvable /\ last.tok.sig # Bound
    /\ last.tok.payload = [exp |-> Now - 10, type |-> "refresh"]
    /\ last.decision = Reject("Invalid token", "InvalidSignatureError")

\* C15: a call with a malformed token, and a call whose key id is cached,
\* whatever its decision, leaves the cache and the phase of the process as
\* they were.
C15_VerifyFrame ==
    [][(last'.kind = "call" /\ (~HasKid(last'.tok) \/ last'.cached)) =>
          /\ public_keys' = public_keys
          /\ phase' = phase
      ]_vars

\* A badly signed token with a cached key id, rejected while the service is
\* up and publishes another mapping than the cache holds: no refresh.
C15_Witness ==
    /\ IsCall /\ FromCache
    /\ last.decision = Reject("Invalid token", "InvalidSignatureError")
    /\ authState = "up"
    /\ public_keys.map # Published(version)

\* C16: after a refetch that returned a mapping the cache is that mapping
\* and nothing else, so an id the old cache held and the fetched mapping
\* lacks is cached no longer; and the cache changes only in the startup
\* fetch and in a call that missed and fetched.
C16_WholesaleReplace ==
    [][/\ (last'.kind = "call" /\ last'.fetch = "returned" /\ last'.fetched.tag = "dict") =>
             /\ public_keys' = last'.fetched
             /\ \A k \in KeyIds :
                   (IsCached(k, public_keys) /\ k \notin DOMAIN last'.fetched.map)
                       => ~IsCached(k, public_keys')
       /\ public_keys' # public_keys =>
             \/ last'.kind = "startup"
             \/ last'.kind = "call" /\ ~last'.cached /\ last'.fetches = 1
                   /\ last'.fetch = "returned"
      ]_vars

\* A call for k2 missed, and its refetch returned the mapping that holds k2
\* alone: k1, which every earlier mapping held, is cached no longer.
C16_Witness ==
    /\ IsCall /\ FromFetch
    /\ last.tok.header.kid = "k2"
    /\ last.fetched = PyDict(Published(MaxRotations))
    /\ public_keys = last.fetched
    /\ ~IsCached("k1", public_keys)

\* C17 as stated: a call whose refetch is answered while the service is
\* failing (connect timeout, another transport error, a non-2xx answer)
\* leaves every cached id cached, with the same key.
C17_Orig ==
    [][(last'.kind = "call" /\ last'.fetch # "none" /\ authState # "up") =>
          \A k \in KeyIds :
              IsCached(k, public_keys) =>
                  /\ IsCached(k, public_keys')
                  /\ public_keys'.map[k] = public_keys.map[k]
      ]_vars

\* C18 as stated: once startup has completed the cache is a mapping from
\* key identifiers to public keys, possibly empty.
C18_Orig ==
    phase = "serving" =>
        /\ public_keys.tag = "dict"
        /\ DOMAIN public_keys.map \subseteq KeyIds
        /\ \A k \in DOMAIN public_keys.map : public_keys.map[k] \in Keys

\* C19 as stated: once no refetch is in flight, the cache holds the mapping
\* returned to the fetch that was issued last.
C19_Orig ==
    ((\A t \in Tasks : task[t].pc # "fetch") /\ recent.done /\ recent.value.tag = "dict")
        => public_keys = recent.value

\* C19 as amended: the response that arrives last wins, whenever its fetch
\* was issued. A call that resumes from a fetch that returned leaves the
\* cache equal to what that fetch returned, whatever another call installed
\* while it waited; a call whose fetch raised leaves the cache as it was.
C19_LastArrivalWins ==
    [][/\ (last'.kind = "call" /\ last'.fetch = "returned") => public_keys' = last'.fetched
       /\ (last'.kind = "call" /\ last'.fetch = "raised") => public_keys' = public_keys
      ]_vars

\* The fetch issued last returned the mapping with the rotated key k2 and
\* installed it; the answer to a fetch issued before it arrived afterwards
\* and put back the mapping without k2.
C19_Witness ==
    /\ \A t \in Tasks : task[t].pc # "fetch"
    /\ recent.done
    /\ recent.value = PyDict(Published(1))
    /\ IsCall /\ last.fetch = "returned"
    /\ last.fetched = PyDict(Published(0))
    /\ public_keys = last.fetched
    /\ ~IsCached("k2", public_keys)

====
